---- MODULE Spec2Model ----
(***************************************************************************)
(* Model of the regime-based backtesting engine of strategy_backtest.py:   *)
(* run_backtest loads a monthly table, segments the policy rate            *)
(* (identify_fed_rate_changes) and runs backtest_strategy.                 *)
(*                                                                         *)
(* Number representation.                                                  *)
(*   - a missing value (NaN) is None == <<>>, a present one is <<v>>;      *)
(*   - spreads are small integers, rolling thresholds are kept times       *)
(*     QScale (the interpolation weights are hundredths), returns are      *)
(*     integer percents, position sizes are hundredths, strategy returns   *)
(*     are hundredths of a percent;                                        *)
(*   - a cumulative growth value is an exact fixed-point number (Num);     *)
(*     a drawdown is the exact fraction num/den of two of them;            *)
(*   - a policy rate is a binary64 number written <<k, e>>, standing for   *)
(*     k/100 + e * 2^-57 / 100: k is the decimal read from the file and e  *)
(*     the representation error of binary64 (F64Err).                      *)
(***************************************************************************)
EXTENDS Integers, Sequences, FiniteSets, TLC

None == <<>>
Some(v) == <<v>>
IsNA(c) == c = None
Val(c) == c[1]

Rep(v, n) == [i \in 1..n |-> v]

(***************************************************************************)
(* Exact fixed-point numbers (Num): sign, little-endian magnitude in base  *)
(* Base and the number sc of fractional digits; the value is               *)
(* sg * mag / Base^sc.  The representation is canonical: no high zero      *)
(* digit, and no low zero digit while sc > 0.                              *)
(***************************************************************************)
Base == 10000

Zero == [sg |-> 0, mag |-> <<>>, sc |-> 0]
One == [sg |-> 1, mag |-> <<1>>, sc |-> 0]

Abs(x) == IF x < 0 THEN -x ELSE x
Sign(x) == IF x < 0 THEN -1 ELSE IF x = 0 THEN 0 ELSE 1

RECURSIVE MagMulCarry(_, _, _)
MagMulCarry(m, k, c) ==
    IF m = <<>>
    THEN IF c = 0 THEN <<>> ELSE <<c % Base>> \o MagMulCarry(<<>>, k, c \div Base)
    ELSE LET x == Head(m) * k + c
         IN  <<x % Base>> \o MagMulCarry(Tail(m), k, x \div Base)

RECURSIVE Strip(_)
Strip(m) ==
    IF m = <<>> THEN <<>>
    ELSE IF m[Len(m)] = 0 THEN Strip(SubSeq(m, 1, Len(m) - 1))
    ELSE m

RECURSIVE Normalize(_)
Normalize(x) ==
    IF x.mag = <<>> THEN Zero
    ELSE IF x.sc > 0 /\ x.mag[1] = 0
    THEN Normalize([sg |-> x.sg, mag |-> Tail(x.mag), sc |-> x.sc - 1])
    ELSE x

\* x * k for a machine integer k
NumMulSmall(x, k) ==
    IF x.sg = 0 \/ k = 0 THEN Zero
    ELSE Normalize([sg |-> x.sg * Sign(k), mag |-> MagMulCarry(x.mag, Abs(k), 0), sc |-> x.sc])

\* x * k / Base
NumMulFrac(x, k) ==
    IF x.sg = 0 \/ k = 0 THEN Zero
    ELSE Normalize([sg |-> x.sg * Sign(k), mag |-> MagMulCarry(x.mag, Abs(k), 0),
                    sc |-> x.sc + 1])

\* the magnitude of x over Base^sc, sc >= x.sc
Aligned(x, sc) == [i \in 1..(sc - x.sc) |-> 0] \o x.mag
MaxSc(x, y) == IF x.sc > y.sc THEN x.sc ELSE y.sc

RECURSIVE MagCmpFrom(_, _, _)
MagCmpFrom(a, b, i) ==
    IF i = 0 THEN 0
    ELSE IF a[i] < b[i] THEN -1
    ELSE IF a[i] > b[i] THEN 1
    ELSE MagCmpFrom(a, b, i - 1)

MagCmp(a, b) ==
    IF Len(a) < Len(b) THEN -1
    ELSE IF Len(a) > Len(b) THEN 1
    ELSE MagCmpFrom(a, b, Len(a))

\* -1, 0 or 1 as x < y, x = y, x > y
NumCmp(x, y) ==
    IF x.sg # y.sg THEN (IF x.sg < y.sg THEN -1 ELSE 1)
    ELSE IF x.sg = 0 THEN 0
    ELSE x.sg * MagCmp(Aligned(x, MaxSc(x, y)), Aligned(y, MaxSc(x, y)))

Digit(m, i) == IF i <= Len(m) THEN m[i] ELSE 0

RECURSIVE MagAddFrom(_, _, _, _)
MagAddFrom(a, b, i, c) ==
    IF i > Len(a) /\ i > Len(b)
    THEN IF c = 0 THEN <<>> ELSE <<c>>
    ELSE LET x == Digit(a, i) + Digit(b, i) + c
         IN  <<x % Base>> \o MagAddFrom(a, b, i + 1, x \div Base)

\* a - b for magnitudes a >= b
RECURSIVE MagSubFrom(_, _, _, _)
MagSubFrom(a, b, i, br) ==
    IF i > Len(a) THEN <<>>
    ELSE LET x == a[i] - Digit(b, i) - br
         IN  IF x < 0
             THEN <<x + Base>> \o MagSubFrom(a, b, i + 1, 1)
             ELSE <<x>> \o MagSubFrom(a, b, i + 1, 0)

NumNeg(x) == [x EXCEPT !.sg = -x.sg]

NumAdd(x, y) ==
    IF x.sg = 0 THEN y
    ELSE IF y.sg = 0 THEN x
    ELSE LET sc == MaxSc(x, y)
             a == Aligned(x, sc)
             b == Aligned(y, sc)
             c == MagCmp(a, b)
         IN  IF x.sg = y.sg
             THEN Normalize([sg |-> x.sg, mag |-> MagAddFrom(a, b, 1, 0), sc |-> sc])
             ELSE IF c = 0 THEN Zero
             ELSE IF c > 0
             THEN Normalize([sg |-> x.sg, mag |-> Strip(MagSubFrom(a, b, 1, 0)), sc |-> sc])
             ELSE Normalize([sg |-> y.sg, mag |-> Strip(MagSubFrom(b, a, 1, 0)), sc |-> sc])

NumSub(x, y) == NumAdd(x, NumNeg(y))

\* a * b for magnitudes
RECURSIVE MagMul(_, _)
MagMul(a, b) ==
    IF a = <<>> \/ b = <<>> THEN <<>>
    ELSE MagAddFrom(MagMulCarry(a, Head(b), 0), <<0>> \o MagMul(a, Tail(b)), 1, 0)

NumMul(x, y) ==
    IF x.sg = 0 \/ y.sg = 0 THEN Zero
    ELSE Normalize([sg |-> x.sg * y.sg, mag |-> Strip(MagMul(x.mag, y.mag)),
                    sc |-> x.sc + y.sc])

\* the integer k as a Num, |k| < Base * Base
NumOfInt(k) ==
    IF k = 0 THEN Zero
    ELSE [sg |-> Sign(k), mag |-> Strip(<<Abs(k) % Base, Abs(k) \div Base>>), sc |-> 0]

(***************************************************************************)
(* Fractions num/den of two Nums with den # 0 (a float quotient kept       *)
(* exact): -1, 0 or 1 as f < g, f = g, f > g.                              *)
(***************************************************************************)
FracCmp(f, g) ==
    LET sf == f.num.sg * f.den.sg
        sg == g.num.sg * g.den.sg
    IN  IF sf # sg THEN (IF sf < sg THEN -1 ELSE 1)
        ELSE IF sf = 0 THEN 0
        ELSE f.den.sg * g.den.sg * NumCmp(NumMul(f.num, g.den), NumMul(g.num, f.den))

RECURSIVE GCD(_, _)
GCD(a, b) == IF b = 0 THEN a ELSE GCD(b, a % b)

(***************************************************************************)
(* Tables: n rows at positions 1..n, the index (one timestamp per row, as   *)
(* a day number) and a set of named columns, each a sequence of n cells.   *)
(***************************************************************************)
HasCol(t, name) == name \in DOMAIN t.cols
Col(t, name) == t.cols[name]
SetCol(t, name, col) == [t EXCEPT !.cols = (name :> col) @@ t.cols]
EmptyTable == [n |-> 0, index |-> <<>>, cols |-> <<>>]

\* df[mask]: the rows at the positions rows (an ascending sequence)
Take(t, rows) ==
    [n |-> Len(rows),
     index |-> [k \in 1..Len(rows) |-> t.index[rows[k]]],
     cols |-> [c \in DOMAIN t.cols |-> [k \in 1..Len(rows) |-> t.cols[c][rows[k]]]]]

\* the positions of the rows where the boolean mask is true, ascending
Where(mask) == SelectSeq([i \in 1..Len(mask) |-> i], LAMBDA i : mask[i])

(***************************************************************************)
(* Program constants.                                                      *)
(***************************************************************************)
Window == 60
MinPeriods == 12
QScale == 100
CumDen == Base
RateThreshold == 5

\* POSITION_SIZES with the two defensive sizes exchanged
POSITION_SIZES_Swapped ==
    ("Low Spread (Buy)" :> 100) @@
    ("Moderate-Low Spread" :> 75) @@
    ("Moderate-High Spread" :> 50) @@
    ("High Spread (Caution)" :> 10) @@
    ("Very High Spread (Reduce Exposure)" :> 25) @@
    ("Unknown" :> 50)

\* POSITION_SIZES with the sizes of the two lowest bands exchanged
POSITION_SIZES_Raised ==
    ("Low Spread (Buy)" :> 75) @@
    ("Moderate-Low Spread" :> 100) @@
    ("Moderate-High Spread" :> 50) @@
    ("High Spread (Caution)" :> 25) @@
    ("Very High Spread (Reduce Exposure)" :> 10) @@
    ("Unknown" :> 50)

POSITION_SIZES ==
    ("Low Spread (Buy)" :> 100) @@
    ("Moderate-Low Spread" :> 75) @@
    ("Moderate-High Spread" :> 50) @@
    ("High Spread (Caution)" :> 25) @@
    ("Very High Spread (Reduce Exposure)" :> 10) @@
    ("Unknown" :> 50)

DefaultPosition == 50

(***************************************************************************)
(* calculate_spread_percentiles: pandas rolling(window, min_periods)       *)
(* .quantile(q) with linear interpolation.  The window at t is the last    *)
(* Window rows ending at t; the missing cells are left out; the result is  *)
(* missing when fewer than MinPeriods cells remain.                        *)
(***************************************************************************)
\* WindowRows of an expanding window instead of a rolling one
WindowRowsExpanding(t) == 1..t

WindowRows(t) == (IF t > Window THEN t - Window + 1 ELSE 1)..t

Observed(col, t) == {i \in WindowRows(t) : ~IsNA(col[i])}

\* SortedGet reading the window in descending order
SortedGetDescending(col, S, k) ==
    CHOOSE v \in {Val(col[i]) : i \in S} :
        /\ Cardinality({i \in S : Val(col[i]) > v}) <= k
        /\ k < Cardinality({i \in S : Val(col[i]) >= v})

\* the k-th smallest (k from 0) of the cells col[i], i in S
SortedGet(col, S, k) ==
    CHOOSE v \in {Val(col[i]) : i \in S} :
        /\ Cardinality({i \in S : Val(col[i]) < v}) <= k
        /\ k < Cardinality({i \in S : Val(col[i]) <= v})

\* RollingQuantile that needs a single observation instead of MinPeriods
RollingQuantileEarly(col, q, t) ==
    LET S == Observed(col, t)
        nobs == Cardinality(S)
        pos == q * (nobs - 1)
        idx == pos \div 100
        frac == pos % 100
    IN  IF nobs < 1 THEN None
        ELSE IF frac = 0 THEN Some(QScale * SortedGet(col, S, idx))
        ELSE LET vlow == SortedGet(col, S, idx)
                 vhigh == SortedGet(col, S, idx + 1)
             IN  Some(QScale * vlow + (vhigh - vlow) * frac)

RollingQuantile(col, q, t) ==
    LET S == Observed(col, t)
        nobs == Cardinality(S)
        pos == q * (nobs - 1)
        idx == pos \div 100
        frac == pos % 100
    IN  IF nobs < MinPeriods THEN None
        ELSE IF frac = 0 THEN Some(QScale * SortedGet(col, S, idx))
        ELSE LET vlow == SortedGet(col, S, idx)
                 vhigh == SortedGet(col, S, idx + 1)
             IN  Some(QScale * vlow + (vhigh - vlow) * frac)

calculate_spread_percentiles(t) ==
    LET s == Col(t, "HY_IG_Spread")
        t1 == SetCol(t, "Spread_P25", [i \in 1..t.n |-> RollingQuantile(s, 25, i)])
        t2 == SetCol(t1, "Spread_P50", [i \in 1..t.n |-> RollingQuantile(s, 50, i)])
        t3 == SetCol(t2, "Spread_P75", [i \in 1..t.n |-> RollingQuantile(s, 75, i)])
    IN  SetCol(t3, "Spread_P90", [i \in 1..t.n |-> RollingQuantile(s, 90, i)])

(***************************************************************************)
(* Comparisons of cells: a comparison with a missing operand is false.     *)
(***************************************************************************)
CellLe(a, b) == ~IsNA(a) /\ ~IsNA(b) /\ Val(a) <= Val(b)
CellGt(a, b) == ~IsNA(a) /\ ~IsNA(b) /\ Val(a) > Val(b)
Scaled(c) == IF IsNA(c) THEN None ELSE Some(QScale * Val(c))

\* SelectRegime with the bands closed below instead of above
SelectRegimeStrict(sp, p25, p50, p75, p90) ==
    LET s == Scaled(sp)
    IN  IF CellGt(p25, s) THEN "Low Spread (Buy)"
        ELSE IF CellLe(p25, s) /\ CellGt(p50, s) THEN "Moderate-Low Spread"
        ELSE IF CellLe(p50, s) /\ CellGt(p75, s) THEN "Moderate-High Spread"
        ELSE IF CellLe(p75, s) /\ CellGt(p90, s) THEN "High Spread (Caution)"
        ELSE IF CellLe(p90, s) THEN "Very High Spread (Reduce Exposure)"
        ELSE IF IsNA(sp) THEN "Unknown"
        ELSE "Unknown"

\* np.select(conditions, choices, default='Unknown'): the first true condition
SelectRegime(sp, p25, p50, p75, p90) ==
    LET s == Scaled(sp)
    IN  IF CellLe(s, p25) THEN "Low Spread (Buy)"
        ELSE IF CellGt(s, p25) /\ CellLe(s, p50) THEN "Moderate-Low Spread"
        ELSE IF CellGt(s, p50) /\ CellLe(s, p75) THEN "Moderate-High Spread"
        ELSE IF CellGt(s, p75) /\ CellLe(s, p90) THEN "High Spread (Caution)"
        ELSE IF CellGt(s, p90) THEN "Very High Spread (Reduce Exposure)"
        ELSE IF IsNA(sp) THEN "Unknown"
        ELSE "Unknown"

\* MapPosition with every size doubled
MapPositionLevered(r) ==
    IF r \in DOMAIN POSITION_SIZES THEN 2 * POSITION_SIZES[r] ELSE 2 * DefaultPosition

\* df['Regime'].map(POSITION_SIZES).fillna(0.50)
MapPosition(r) == IF r \in DOMAIN POSITION_SIZES THEN POSITION_SIZES[r] ELSE DefaultPosition

\* StrategyReturn that leaves the position size out
StrategyReturnUnsized(p, r) == IF IsNA(r) THEN 0 ELSE 100 * Val(r)

\* StrategyReturn of a short position of the same size
StrategyReturnShort(p, r) == IF IsNA(r) THEN 0 ELSE (0 - p) * Val(r)

\* (Position_Size * SPY_Returns).fillna(0), in hundredths of a percent
StrategyReturn(p, r) == IF IsNA(r) THEN 0 ELSE p * Val(r)

(***************************************************************************)
(* cumprod, cummax (both skip missing cells and leave them missing) and    *)
(* the drawdown.  mult[i] is the numerator over CumDen of the factor       *)
(* 1 + return/100 of row i, or None.                                       *)
(***************************************************************************)
\* the last present cell of a column, or the cell dflt when there is none
LastPresent(col, dflt) ==
    LET present == SelectSeq(col, LAMBDA c : ~IsNA(c))
    IN  IF present = <<>> THEN dflt ELSE present[Len(present)]

\* the running product over the rows lo..hi, acc being the product before lo;
\* the rows are taken in order, the range is halved to keep the evaluation
\* shallow
RECURSIVE CumProdFrom(_, _, _, _)
CumProdFrom(mult, lo, hi, acc) ==
    IF lo > hi THEN <<>>
    ELSE IF lo = hi
    THEN IF IsNA(mult[lo]) THEN <<None>>
         ELSE <<Some(NumMulFrac(acc, Val(mult[lo])))>>
    ELSE LET mid == (lo + hi) \div 2
             left == CumProdFrom(mult, lo, mid, acc)
         IN  left \o CumProdFrom(mult, mid + 1, hi, Val(LastPresent(left, Some(acc))))

\* CumProd without compounding: each month's own growth factor
CumProdSimple(mult) ==
    [i \in 1..Len(mult) |-> IF IsNA(mult[i]) THEN None ELSE Some(NumMulFrac(One, Val(mult[i])))]

CumProd(mult) == CumProdFrom(mult, 1, Len(mult), One)

\* peak: the running maximum so far (None before the first present cell)
RECURSIVE CumMaxFrom(_, _, _, _)
CumMaxFrom(cum, lo, hi, peak) ==
    IF lo > hi THEN <<>>
    ELSE IF lo = hi
    THEN IF IsNA(cum[lo]) THEN <<None>>
         ELSE IF IsNA(peak) \/ NumCmp(Val(cum[lo]), Val(peak)) > 0
         THEN <<cum[lo]>> ELSE <<peak>>
    ELSE LET mid == (lo + hi) \div 2
             left == CumMaxFrom(cum, lo, mid, peak)
         IN  left \o CumMaxFrom(cum, mid + 1, hi, LastPresent(left, peak))

\* CumMax taking the maximum of the whole column instead of the running one
CumMaxGlobal(cum) ==
    LET present == {i \in 1..Len(cum) : ~IsNA(cum[i])}
        top == CHOOSE i \in present : \A j \in present : NumCmp(Val(cum[i]), Val(cum[j])) >= 0
    IN  [i \in 1..Len(cum) |-> IF IsNA(cum[i]) THEN None ELSE cum[top]]

CumMax(cum) == CumMaxFrom(cum, 1, Len(cum), None)

\* (cum / peak - 1) * 100 as the fraction num/den; 0/0 is missing
Drawdown(c, m) ==
    IF IsNA(c) \/ IsNA(m) THEN None
    ELSE IF Val(m).sg = 0 /\ Val(c).sg = 0 THEN None
    ELSE Some([num |-> NumMulSmall(NumSub(Val(c), Val(m)), 100), den |-> Val(m)])

\* the sign of a drawdown cell: num/den (den = 0 is an infinity of num's sign)
FracSign(f) == IF f.den.sg = 0 THEN f.num.sg ELSE f.num.sg * f.den.sg

backtest_strategy(tin) ==
    LET t0 == calculate_spread_percentiles(tin)
        N == t0.n
        sp == Col(t0, "HY_IG_Spread")
        ret == Col(t0, "SPY_Returns")
        regime == [i \in 1..N |->
                     SelectRegime(sp[i], Col(t0, "Spread_P25")[i], Col(t0, "Spread_P50")[i],
                                  Col(t0, "Spread_P75")[i], Col(t0, "Spread_P90")[i])]
        pos == [i \in 1..N |-> MapPosition(regime[i])]
        sret == [i \in 1..N |-> StrategyReturn(pos[i], ret[i])]
        spycum == CumProd([i \in 1..N |->
                     IF IsNA(ret[i]) THEN None ELSE Some(CumDen + 100 * Val(ret[i]))])
        strcum == CumProd([i \in 1..N |-> Some(CumDen + sret[i])])
        spymax == CumMax(spycum)
        strmax == CumMax(strcum)
        t1 == SetCol(t0, "Regime", regime)
        t2 == SetCol(t1, "Position_Size", pos)
        t3 == SetCol(t2, "Strategy_Return", sret)
        t4 == SetCol(t3, "SPY_Cumulative", spycum)
        t5 == SetCol(t4, "Strategy_Cumulative", strcum)
        t6 == SetCol(t5, "SPY_Drawdown", [i \in 1..N |-> Drawdown(spycum[i], spymax[i])])
    IN  SetCol(t6, "Strategy_Drawdown", [i \in 1..N |-> Drawdown(strcum[i], strmax[i])])


(***************************************************************************)
(* identify_fed_rate_changes.  Policy rates are binary64 numbers: the      *)
(* decimal k/100 of the file is stored with the error F64Err[k] (in units  *)
(* of 2^-57/100).  The rates of RateValues lie within a factor two of one  *)
(* another, so the binary64 difference of two of them is exact (Sterbenz)  *)
(* and is the pair of the differences.                                     *)
(***************************************************************************)
F64Err == (5 :> 40) @@ (195 :> -640) @@ (200 :> 0) @@ (205 :> -2560) @@
          (210 :> 1280) @@ (250 :> 0)

F64(k) == <<k, F64Err[k]>>

\* binary64 comparison of a difference d with the literal 0.05 and with -0.05
GtThreshold(d) ==
    \/ d[1] > RateThreshold
    \/ d[1] = RateThreshold /\ d[2] > F64Err[RateThreshold]
LtNegThreshold(d) ==
    \/ d[1] < -RateThreshold
    \/ d[1] = -RateThreshold /\ d[2] < -F64Err[RateThreshold]

RECURSIVE FFillFrom(_, _, _)
FFillFrom(col, i, last) ==
    IF i > Len(col) THEN <<>>
    ELSE LET c == IF IsNA(col[i]) THEN last ELSE col[i]
         IN  <<c>> \o FFillFrom(col, i + 1, c)

ffill(col) == FFillFrom(col, 1, None)

\* diff that takes the first row's difference from zero
diffFromZero(col) ==
    [i \in 1..Len(col) |->
        IF IsNA(col[i]) \/ (i > 1 /\ IsNA(col[i - 1])) THEN None
        ELSE IF i = 1 THEN col[1]
        ELSE Some(<<Val(col[i])[1] - Val(col[i - 1])[1],
                    Val(col[i])[2] - Val(col[i - 1])[2]>>)]

\* Series.diff(): current minus previous, missing on the first row and
\* whenever an operand is missing
diff(col) ==
    [i \in 1..Len(col) |->
        IF i = 1 \/ IsNA(col[i]) \/ IsNA(col[i - 1]) THEN None
        ELSE Some(<<Val(col[i])[1] - Val(col[i - 1])[1],
                    Val(col[i])[2] - Val(col[i - 1])[2]>>)]

ChangeType(d) ==
    IF ~IsNA(d) /\ LtNegThreshold(Val(d)) THEN "decrease"
    ELSE IF ~IsNA(d) /\ GtThreshold(Val(d)) THEN "increase"
    ELSE "none"

ChangeLabel(d) ==
    IF ~IsNA(d) /\ LtNegThreshold(Val(d)) THEN "Rate Decrease"
    ELSE IF ~IsNA(d) /\ GtThreshold(Val(d)) THEN "Rate Increase"
    ELSE "No Change"

\* ClosePeriod that ends a period on the month before idx
ClosePeriodBefore(cur, idx) == [Val(cur) EXCEPT !.end = Some(idx - 1)]

\* current_period['end'] = str(idx): the period cur closed at the row idx
ClosePeriod(cur, idx) == [Val(cur) EXCEPT !.end = Some(idx)]

\* PeriodLoop that does not merge consecutive months of the same type
RECURSIVE PeriodLoopNoMerge(_, _, _, _)
PeriodLoopNoMerge(types, i, cur, periods) ==
    IF i > Len(types)
    THEN IF ~IsNA(cur)
         THEN Append(periods, [Val(cur) EXCEPT !.end = Some(Len(types))])
         ELSE periods
    ELSE IF types[i] # "none"
    THEN PeriodLoopNoMerge(types, i + 1,
                           Some([type |-> types[i], start |-> i, end |-> None]),
                           IF ~IsNA(cur)
                           THEN Append(periods, [Val(cur) EXCEPT !.end = Some(i)])
                           ELSE periods)
    ELSE IF ~IsNA(cur)
    THEN PeriodLoopNoMerge(types, i + 1, None,
                           Append(periods, [Val(cur) EXCEPT !.end = Some(i)]))
    ELSE PeriodLoopNoMerge(types, i + 1, cur, periods)

\* the loop over df.iterrows() that builds rate_periods; cur is
\* current_period (None or a record), the timestamp of row i is i
RECURSIVE PeriodLoop(_, _, _, _)
PeriodLoop(types, i, cur, periods) ==
    IF i > Len(types)
    THEN IF ~IsNA(cur)
         THEN Append(periods, ClosePeriod(cur, Len(types)))
         ELSE periods
    ELSE IF types[i] # "none"
    THEN IF IsNA(cur) \/ Val(cur).type # types[i]
         THEN PeriodLoop(types, i + 1,
                         Some([type |-> types[i], start |-> i, end |-> None]),
                         IF ~IsNA(cur)
                         THEN Append(periods, ClosePeriod(cur, i))
                         ELSE periods)
         ELSE PeriodLoop(types, i + 1, cur, periods)
    ELSE IF ~IsNA(cur)
    THEN PeriodLoop(types, i + 1, None,
                    Append(periods, ClosePeriod(cur, i)))
    ELSE PeriodLoop(types, i + 1, cur, periods)

AllNA(col) == \A i \in 1..Len(col) : IsNA(col[i])

\* The result: on the normal path the pair (df, rate_periods) and the
\* caller's table untouched; on the early path the caller's table itself,
\* with the two columns added in place, and no list of periods.
identify_fed_rate_changes(t) ==
    IF ~HasCol(t, "FEDFUNDS") \/ AllNA(Col(t, "FEDFUNDS"))
    THEN LET m == SetCol(SetCol(t, "Fed_Rate_Change", Rep("No Change", t.n)),
                         "Fed_Rate_Change_Type", Rep("none", t.n))
         IN  [pair |-> FALSE, df |-> m, rate_periods |-> <<>>, caller |-> m]
    ELSE LET filled == ffill(Col(t, "FEDFUNDS"))
             d == diff(filled)
             types == [i \in 1..t.n |-> ChangeType(d[i])]
             t1 == SetCol(t, "FEDFUNDS", filled)
             t2 == SetCol(t1, "Fed_Rate_Diff", d)
             t3 == SetCol(t2, "Fed_Rate_Change", [i \in 1..t.n |-> ChangeLabel(d[i])])
             t4 == SetCol(t3, "Fed_Rate_Change_Type", types)
         IN  [pair |-> TRUE, df |-> t4,
              rate_periods |-> PeriodLoop(types, 1, None, <<>>), caller |-> t]


(***************************************************************************)
(* Floats of the metrics.  A float is a record with a kind k:              *)
(*   "nan", "inf" (with its sign sg), "frac" (the exact quotient num/den   *)
(*   of two Nums, den # 0), and the symbolic kinds "pow" (base ** exp - 1, *)
(*   times 100), "std" (the annualized sample deviation of a sample that   *)
(*   is not constant; it is positive), "excess", "quot" and "diff".        *)
(***************************************************************************)
RISK_FREE_RATE == 4
RateLevel == 250
DaysPerYear4 == 1461

NaN == [k |-> "nan"]
Inf(sg) == [k |-> "inf", sg |-> sg]
Frac(a, b) == [k |-> "frac", num |-> a, den |-> b]
FZero == Frac(Zero, One)
FInt(i) == Frac(NumOfInt(i), One)

\* a / b for two cumulative values (numpy: 0/0 is nan, x/0 an infinity)
Quot(a, b) ==
    IF b.sg = 0 THEN (IF a.sg = 0 THEN NaN ELSE Inf(a.sg))
    ELSE Frac(a, b)

\* (q - 1) * 100
PercentChange(q) ==
    IF q.k = "frac" THEN Frac(NumMulSmall(NumSub(q.num, q.den), 100), q.den)
    ELSE q

\* the rational a/b in lowest terms with a positive denominator, b # 0
Rational(a, b) ==
    LET g == GCD(Abs(a), Abs(b))
    IN  <<Sign(b) * (a \div g), Abs(b) \div g>>

\* (q ** e - 1) * 100 for the exponent e = <<a, b>>, a/b # 0, as numpy
\* computes it: a negative base with a fractional exponent is nan
Power(q, e) ==
    IF q.k = "nan" THEN NaN
    ELSE IF q.k = "inf"
    THEN IF e[1] < 0 THEN FInt(-100)
         ELSE IF q.sg > 0 \/ e[2] # 1 \/ e[1] % 2 = 0 THEN Inf(1) ELSE Inf(-1)
    ELSE LET sg == q.num.sg * q.den.sg
         IN  IF sg = 0 THEN (IF e[1] > 0 THEN FInt(-100) ELSE Inf(1))
             ELSE IF sg < 0 /\ e[2] # 1 THEN NaN
             ELSE IF NumCmp(q.num, q.den) = 0 THEN FZero
             ELSE [k |-> "pow", base |-> q, exp |-> e]

\* Series.std() * sqrt(12) of a sample of returns (ddof = 1)
Std(sample) ==
    IF Len(sample) < 2 THEN NaN
    ELSE IF \A i \in 1..Len(sample) : sample[i] = sample[1] THEN FZero
    ELSE [k |-> "std", sample |-> sample]

\* x > 0 for a volatility x (a comparison with nan is false)
Positive(x) == x.k = "std"

\* annualized - risk_free_rate
Excess(ann) ==
    IF ann.k \in {"nan", "inf"} THEN ann ELSE [k |-> "excess", of |-> ann]

\* excess / vol if vol > 0 else 0
Ratio(ex, vol) ==
    IF ~Positive(vol) THEN FZero
    ELSE IF ex.k \in {"nan", "inf"} THEN ex
    ELSE [k |-> "quot", num |-> ex, den |-> vol]

\* a - b
FSub(a, b) ==
    IF a.k = "nan" \/ b.k = "nan" THEN NaN
    ELSE IF a.k = "inf" THEN (IF b.k = "inf" /\ b.sg = a.sg THEN NaN ELSE a)
    ELSE IF b.k = "inf" THEN Inf(-b.sg)
    ELSE [k |-> "diff", a |-> a, b |-> b]

\* (returns > 0).sum() / n * 100
WinRate(sample) ==
    LET w == Cardinality({i \in 1..Len(sample) : sample[i] > 0})
        r == Rational(100 * w, Len(sample))
    IN  Frac(NumOfInt(r[1]), NumOfInt(r[2]))

\* Series.min() of a drawdown column: missing cells are skipped, nan when
\* none is left; a cell with a zero peak is minus infinity
\* the smallest present cell of the rows lo..hi, the earliest of equal ones
RECURSIVE MinFrom(_, _, _)
MinFrom(col, lo, hi) ==
    IF lo > hi THEN None
    ELSE IF lo = hi THEN col[lo]
    ELSE LET mid == (lo + hi) \div 2
             left == MinFrom(col, lo, mid)
             right == MinFrom(col, mid + 1, hi)
         IN  IF IsNA(right) THEN left
             ELSE IF IsNA(left) \/ FracCmp(Val(right), Val(left)) < 0 THEN right
             ELSE left

MinDrawdown(col) ==
    IF \A i \in 1..Len(col) : IsNA(col[i]) THEN NaN
    ELSE IF \E i \in 1..Len(col) : ~IsNA(col[i]) /\ Val(col[i]).den.sg = 0 THEN Inf(-1)
    ELSE LET m == Val(MinFrom(col, 1, Len(col)))
         IN  Frac(m.num, m.den)

\* Series.dropna() of a column of cells, as the sequence of its values
DropNA(col) ==
    LET keep == SelectSeq([i \in 1..Len(col) |-> i], LAMBDA i : ~IsNA(col[i]))
    IN  [k \in 1..Len(keep) |-> Val(col[keep[k]])]

\* the numerator over CumDen of 1 + r / 100
SpyFactor(r) == CumDen + 100 * r
StrategyFactor(sr) == CumDen + sr

SpyFactors(sample) == [i \in 1..Len(sample) |-> SpyFactor(sample[i])]
StrategyFactors(sample) == [i \in 1..Len(sample) |-> StrategyFactor(sample[i])]

\* (1 + returns / 100).cumprod() of a sequence of values, given the factors
CumOf(factors) ==
    LET c == CumProd([i \in 1..Len(factors) |-> Some(factors[i])])
    IN  [i \in 1..Len(factors) |-> Val(c[i])]

(***************************************************************************)
(* calculate_period_metrics                                                *)
(***************************************************************************)
ZeroSide ==
    [total_return |-> FZero, annualized_return |-> FZero, volatility |-> FZero,
     sharpe_ratio |-> FZero, max_drawdown |-> FZero, win_rate |-> FZero]

\* PeriodSide measuring the growth from 1.0 before the first row, so that
\* the first row's return counts
PeriodSideFromOne(sample, factors, ddcol, n_months) ==
    LET cum == CumOf(factors)
        growth == Quot(cum[Len(cum)], One)
        total == IF Len(cum) > 0 THEN PercentChange(growth) ELSE FZero
        ann == IF n_months > 0
               THEN (IF Len(cum) > 0 THEN Power(growth, Rational(12, n_months)) ELSE FZero)
               ELSE FZero
        vol == IF Len(sample) > 1 THEN Std(sample) ELSE FZero
    IN  [total_return |-> total,
         annualized_return |-> ann,
         volatility |-> vol,
         sharpe_ratio |-> Ratio(Excess(ann), vol),
         max_drawdown |-> MinDrawdown(ddcol),
         win_rate |-> IF Len(sample) > 0 THEN WinRate(sample) ELSE FZero]

\* one side of the result: the returns of the side with their factors, its
\* drawdown column and the number of rows of the period
PeriodSide(sample, factors, ddcol, n_months) ==
    LET cum == CumOf(factors)
        growth == Quot(cum[Len(cum)], cum[1])
        total == IF Len(cum) > 0 THEN PercentChange(growth) ELSE FZero
        ann == IF n_months > 0
               THEN (IF Len(cum) > 0 THEN Power(growth, Rational(12, n_months)) ELSE FZero)
               ELSE FZero
        vol == IF Len(sample) > 1 THEN Std(sample) ELSE FZero
    IN  [total_return |-> total,
         annualized_return |-> ann,
         volatility |-> vol,
         sharpe_ratio |-> Ratio(Excess(ann), vol),
         max_drawdown |-> MinDrawdown(ddcol),
         win_rate |-> IF Len(sample) > 0 THEN WinRate(sample) ELSE FZero]

\* calculate_period_metrics taking the total returns from the cumulative
\* columns of the backtest, which carry the growth of the months before
\* and between the rows of the period
calculate_period_metrics_running(period_data) ==
    LET period_returns == Col(period_data, "Strategy_Return")
        spy_returns == DropNA(Col(period_data, "SPY_Returns"))
        running(name) ==
            LET cum == DropNA(Col(period_data, name))
            IN  IF Len(cum) > 0 THEN PercentChange(Quot(cum[Len(cum)], cum[1])) ELSE FZero
    IN  IF Len(period_returns) = 0
        THEN [n_months |-> 0, strategy |-> ZeroSide, spy |-> ZeroSide]
        ELSE [n_months |-> period_data.n,
              strategy |-> [PeriodSide(period_returns, StrategyFactors(period_returns),
                                       Col(period_data, "Strategy_Drawdown"), period_data.n)
                               EXCEPT !.total_return = running("Strategy_Cumulative")],
              spy |-> [PeriodSide(spy_returns, SpyFactors(spy_returns),
                                  Col(period_data, "SPY_Drawdown"), period_data.n)
                          EXCEPT !.total_return = running("SPY_Cumulative")]]

calculate_period_metrics(period_data) ==
    LET period_returns == Col(period_data, "Strategy_Return")
        spy_returns == DropNA(Col(period_data, "SPY_Returns"))
    IN  IF Len(period_returns) = 0
        THEN [n_months |-> 0, strategy |-> ZeroSide, spy |-> ZeroSide]
        ELSE [n_months |-> period_data.n,
              strategy |-> PeriodSide(period_returns, StrategyFactors(period_returns),
                                      Col(period_data, "Strategy_Drawdown"), period_data.n),
              spy |-> PeriodSide(spy_returns, SpyFactors(spy_returns),
                                 Col(period_data, "SPY_Drawdown"), period_data.n)]

(***************************************************************************)
(* calculate_performance_by_fed_periods                                    *)
(***************************************************************************)
\* FEDFUNDS >= 2.5 and FEDFUNDS < 2.5 in binary64 (false on a missing rate)
\* RateGe with a strict comparison: FEDFUNDS > 2.5
RateGeStrict(c) ==
    /\ ~IsNA(c)
    /\ \/ Val(c)[1] > RateLevel
       \/ Val(c)[1] = RateLevel /\ Val(c)[2] > F64Err[RateLevel]
RateGe(c) ==
    /\ ~IsNA(c)
    /\ \/ Val(c)[1] > RateLevel
       \/ Val(c)[1] = RateLevel /\ Val(c)[2] >= F64Err[RateLevel]
RateLt(c) ==
    /\ ~IsNA(c)
    /\ \/ Val(c)[1] < RateLevel
       \/ Val(c)[1] = RateLevel /\ Val(c)[2] < F64Err[RateLevel]

\* the rows of each segment, by name
SegmentRows(t) ==
    LET byType == IF HasCol(t, "Fed_Rate_Change_Type")
                  THEN [ty \in {"increase", "decrease", "none"} |->
                          Where([i \in 1..t.n |-> Col(t, "Fed_Rate_Change_Type")[i] = ty])]
                  ELSE <<>>
        byLevel == IF HasCol(t, "FEDFUNDS")
                   THEN ("rate_above_2.5" :> Where([i \in 1..t.n |-> RateGe(Col(t, "FEDFUNDS")[i])])) @@
                        ("rate_below_2.5" :> Where([i \in 1..t.n |-> RateLt(Col(t, "FEDFUNDS")[i])]))
                   ELSE <<>>
    IN  byType @@ byLevel

calculate_performance_by_fed_periods(t) ==
    LET rows == SegmentRows(t)
        keys == {key \in DOMAIN rows : Len(rows[key]) > 0}
    IN  [key \in keys |-> calculate_period_metrics(Take(t, rows[key]))]

(***************************************************************************)
(* calculate_performance_metrics.  The result is the metrics dictionary,   *)
(* None, or the exception raised by 1/n_years when the clean rows span no  *)
(* time.                                                                   *)
(***************************************************************************)
\* round(4) of the mean sum/(scale * count), in ten-thousandths
Round4(sum, den) ==
    LET x == 10000 * Abs(sum)
        q == x \div den
        r == x % den
        up == 2 * r > den \/ (2 * r = den /\ q % 2 = 1)
    IN  Sign(sum) * (IF up THEN q + 1 ELSE q)

RECURSIVE SumFrom(_, _, _)
SumFrom(sq, lo, hi) ==
    IF lo > hi THEN 0
    ELSE IF lo = hi THEN sq[lo]
    ELSE LET mid == (lo + hi) \div 2
         IN  SumFrom(sq, lo, mid) + SumFrom(sq, mid + 1, hi)

SumSeq(sq) == SumFrom(sq, 1, Len(sq))

\* groupby('Regime').agg(count, mean, std of Strategy_Return; mean of
\* SPY_Returns).round(4)
RegimeStats(clean) ==
    LET regimes == {Col(clean, "Regime")[i] : i \in 1..clean.n}
    IN  [g \in regimes |->
            LET rows == Where([i \in 1..clean.n |-> Col(clean, "Regime")[i] = g])
                sr == [k \in 1..Len(rows) |-> Col(clean, "Strategy_Return")[rows[k]]]
                br == [k \in 1..Len(rows) |-> Val(Col(clean, "SPY_Returns")[rows[k]])]
            IN  [count |-> Len(rows),
                 mean |-> Round4(SumSeq(sr), 100 * Len(rows)),
                 std |-> Std(sr),
                 spy_mean |-> Round4(SumSeq(br), Len(rows))]]

\* one side of the metrics: its returns, cumulative column and drawdown
\* column on the clean rows, and the clean day span
MetricsSide(sample, cum, ddcol, days) ==
    LET growth == Quot(cum[Len(cum)], cum[1])
        ann == Power(growth, Rational(DaysPerYear4, 4 * days))
        vol == Std(sample)
        downside == SelectSeq(sample, LAMBDA r : r < 0)
        downside_vol == IF Len(downside) > 0 THEN Std(downside) ELSE FZero
    IN  [total_return |-> PercentChange(growth),
         annualized_return |-> ann,
         excess_return |-> Excess(ann),
         volatility |-> vol,
         sharpe_ratio |-> Ratio(Excess(ann), vol),
         sortino_ratio |-> Ratio(Excess(ann), downside_vol),
         max_drawdown |-> MinDrawdown(ddcol),
         win_rate |-> WinRate(sample),
         n_months |-> Len(sample)]

calculate_performance_metrics(t) ==
    LET df_clean == Take(t, Where([i \in 1..t.n |-> ~IsNA(Col(t, "SPY_Returns")[i])]))
        days == df_clean.index[df_clean.n] - df_clean.index[1]
        vals(name) == [i \in 1..df_clean.n |-> Val(Col(df_clean, name)[i])]
        spy == MetricsSide(vals("SPY_Returns"), vals("SPY_Cumulative"),
                           Col(df_clean, "SPY_Drawdown"), days)
        strategy == MetricsSide(Col(df_clean, "Strategy_Return"), vals("Strategy_Cumulative"),
                                Col(df_clean, "Strategy_Drawdown"), days)
    IN  IF df_clean.n = 0 THEN [out |-> "None"]
        ELSE IF days = 0 THEN [out |-> "ZeroDivisionError"]
        ELSE [out |-> "metrics",
              metrics |->
                [spy |-> spy,
                 strategy |-> strategy,
                 outperformance |->
                   [total_return |-> FSub(strategy.total_return, spy.total_return),
                    annualized_return |-> FSub(strategy.annualized_return, spy.annualized_return),
                    sharpe_improvement |-> FSub(strategy.sharpe_ratio, spy.sharpe_ratio),
                    sortino_improvement |-> FSub(strategy.sortino_ratio, spy.sortino_ratio),
                    max_dd_improvement |-> FSub(strategy.max_drawdown, spy.max_drawdown)],
                 risk_free_rate |-> RISK_FREE_RATE,
                 regime_stats |-> RegimeStats(df_clean)]]


(***************************************************************************)
(* generate_current_strategy_review: the rows of the last twelve months    *)
(* (timestamps not before the latest timestamp minus a year), one record   *)
(* per row.                                                                *)
(***************************************************************************)
LookbackDays == 365

MaxOf(sq) == CHOOSE v \in {sq[i] : i \in 1..Len(sq)} : \A i \in 1..Len(sq) : sq[i] <= v

\* the record of row k of recent_df; the previous size is that of the last
\* row with an earlier timestamp, the row's own when there is none
ReviewRecord(recent_df, k) ==
    LET regime == Col(recent_df, "Regime")
        size == Col(recent_df, "Position_Size")
        Position_Change == k = 1 \/ regime[k] # regime[k - 1]
        Position_Size_Change == k = 1 \/ size[k] # size[k - 1]
        is_action == Position_Change \/ Position_Size_Change
        earlier == {j \in 1..recent_df.n : recent_df.index[j] < recent_df.index[k]}
        prev_size == IF earlier = {} THEN size[k]
                     ELSE size[CHOOSE j \in earlier : \A i \in earlier : i <= j]
    IN  [date |-> recent_df.index[k],
         regime |-> regime[k],
         spread |-> Col(recent_df, "HY_IG_Spread")[k],
         position_size |-> size[k],
         spy_return |-> Col(recent_df, "SPY_Returns")[k],
         strategy_return |-> Col(recent_df, "Strategy_Return")[k],
         has_action |-> is_action,
         action |-> IF ~is_action THEN None
                    ELSE IF size[k] > prev_size THEN Some("Increase Position")
                    ELSE IF size[k] < prev_size THEN Some("Decrease Position")
                    ELSE Some("Regime Change")]

\* RecentRows without the cut-off: every row of the table
RecentRowsAll(t) == [i \in 1..t.n |-> i]

\* the positions of the rows of the look-back window
RecentRows(t) ==
    LET cutoff_date == MaxOf(t.index) - LookbackDays
    IN  Where([i \in 1..t.n |-> t.index[i] >= cutoff_date])

generate_current_strategy_review(t) ==
    LET recent_df == Take(t, RecentRows(t))
    IN  [k \in 1..recent_df.n |-> ReviewRecord(recent_df, k)]

(***************************************************************************)
(* Inputs: the monthly tables load_data may return.                        *)
(***************************************************************************)
MaxSpread == 3
MaxTail == 2
MaxRetTail == 2
MaxRateLen == 4
MaxStamps == 3

SpreadValues == 1..MaxSpread
SpreadCells == {None} \cup {Some(v) : v \in SpreadValues}
RetValues == {-300, -100, -10, 0, 5, 100}
RetCells == {None} \cup {Some(r) : r \in RetValues}
RateValues == {195, 200, 210, 250}
RateCells == {None} \cup {Some(F64(k)) : k \in RateValues}

Seqs(A, k) == UNION {[1..j -> A] : j \in 0..k}
Cycle(m, h) == [i \in 1..h |-> m[((i - 1) % Len(m)) + 1]]

\* the day number of the i-th month end, counted from the start of a
\* common year
YearDays == <<31, 59, 90, 120, 151, 181, 212, 243, 273, 304, 334, 365>>
MonthEnd(i) == 365 * ((i - 1) \div 12) + YearDays[((i - 1) % 12) + 1]
MonthEnds(n) == [i \in 1..n |-> MonthEnd(i)]

Table(spread, ret) ==
    [n |-> Len(spread), index |-> MonthEnds(Len(spread)),
     cols |-> ("HY_IG_Spread" :> spread) @@ ("SPY_Returns" :> ret)]

TableWithRates(spread, ret, fed) ==
    [n |-> Len(spread), index |-> MonthEnds(Len(spread)),
     cols |-> ("HY_IG_Spread" :> spread) @@ ("SPY_Returns" :> ret) @@ ("FEDFUNDS" :> fed)]

\* a repeated two-month pattern of spreads for 11 or 12 months, then up to
\* MaxTail arbitrary months; the benchmark return is constant (missing only
\* on the tables without a tail)
SpreadInput(m, h, tl, r) == Table(Cycle(m, h) \o tl, Rep(r, h + Len(tl)))

\* twelve months of the lowest spread, then months of arbitrary returns,
\* all at the lowest or all at the highest spread
ReturnInput(st, rt, r) ==
    Table(Rep(Some(1), MinPeriods) \o st, Rep(r, MinPeriods) \o rt)

\* a run of spreads, a run of missing or lowest spreads long enough to push
\* the first run out of the rolling window, and a tail
LongInput(v, a, x, b, tl) ==
    Table(Rep(Some(v), a) \o Rep(x, b) \o tl, Rep(None, a + b + Len(tl)))

\* Scenario B of the specification, placed after the eleven months that the
\* thresholds need
ScenarioB ==
    Table(Rep(Some(1), MinPeriods - 1) \o <<Some(1), Some(MaxSpread), Some(1), Some(1)>>,
          Rep(None, MinPeriods - 1) \o <<Some(5), Some(-10), Some(5), Some(5)>>)

\* Scenario C of the specification
ScenarioC == <<Some(F64(200)), Some(F64(210)), Some(F64(210)), Some(F64(195)), Some(F64(200))>>

\* a short table with an arbitrary policy-rate column
RateInput(f) ==
    TableWithRates(Rep(Some(1), Len(f)), Cycle(<<Some(5), Some(-10)>>, Len(f)), f)

IsMarketInput(t) ==
    \/ \E m \in [1..2 -> SpreadCells], h \in {MinPeriods - 1, MinPeriods},
          tl \in Seqs(SpreadCells, MaxTail), r \in {None, Some(5)} :
          /\ r = None => tl = <<>>
          /\ t = SpreadInput(m, h, tl, r)
    \/ \E j \in 0..MaxRetTail :
          \E s \in {Some(1), Some(MaxSpread)},
             rt \in [1..j -> RetCells], r \in {None, Some(5)} :
             t = ReturnInput(Rep(s, j), rt, r)
    \/ \E v \in {1, MaxSpread}, a \in {1, MinPeriods - 1, MinPeriods},
          x \in {None, Some(1)},
          b \in {Window - MinPeriods, Window - MinPeriods + 1, Window - 1},
          tl \in Seqs({Some(MaxSpread)}, 1) :
          t = LongInput(v, a, x, b, tl)
    \/ t = ScenarioB

IsRateInput(t) ==
    \/ \E j \in 1..MaxRateLen : \E f \in [1..j -> RateCells] : t = RateInput(f)
    \/ t = RateInput(ScenarioC)

\* a short table whose rows carry arbitrary timestamps among the first month
\* ends: ascending, unsorted or repeated, as the file has them
StampedInput(idx) ==
    [Table(Rep(Some(1), Len(idx)), Cycle(<<Some(5), Some(-10)>>, Len(idx)))
        EXCEPT !.index = idx]

\* fourteen months with the regimes Low, Very High, Low on the last three,
\* the last row repeating the timestamp of the row before it
RepeatedStampInput ==
    [Table(Rep(Some(1), MinPeriods) \o <<Some(MaxSpread), Some(1)>>,
           Rep(Some(5), MinPeriods + 2))
        EXCEPT !.index = MonthEnds(MinPeriods + 1) \o <<MonthEnd(MinPeriods + 1)>>]

IsStampedInput(t) ==
    \/ \E j \in 2..MaxStamps : \E idx \in [1..j -> {MonthEnd(i) : i \in 1..MaxStamps}] :
          t = StampedInput(idx)
    \/ t = RepeatedStampInput

IsInput(t) == IsMarketInput(t) \/ IsRateInput(t) \/ IsStampedInput(t)

(***************************************************************************)
(* run_backtest as a state machine.                                        *)
(***************************************************************************)
VARIABLES pc, input, df, rate_periods, df_backtest, metrics, fed_period_metrics,
          current_review

vars == <<pc, input, df, rate_periods, df_backtest, metrics, fed_period_metrics,
          current_review>>

\* after df = load_data()
Loaded ==
    /\ df = input
    /\ pc = "loaded"
    /\ rate_periods = <<>>
    /\ df_backtest = EmptyTable
    /\ metrics = None
    /\ fed_period_metrics = None
    /\ current_review = <<>>

Init == IsInput(input) /\ Loaded

\* run_backtest, "Identify Fed rate changes": the call unpacks a pair, so a
\* result that is a bare table raises and ends the run
IdentifyRateChanges ==
    /\ pc = "loaded"
    /\ IF HasCol(df, "FEDFUNDS")
       THEN LET r == identify_fed_rate_changes(df)
            IN  IF r.pair
                THEN /\ df' = r.df
                     /\ rate_periods' = r.rate_periods
                     /\ pc' = "identified"
                ELSE /\ df' = r.caller
                     /\ rate_periods' = rate_periods
                     /\ pc' = "raised"
       ELSE /\ df' = df
            /\ rate_periods' = <<>>
            /\ pc' = "identified"
    /\ UNCHANGED <<input, df_backtest, metrics, fed_period_metrics, current_review>>

\* run_backtest, "Run backtest"
BacktestStrategy ==
    /\ pc = "identified"
    /\ df_backtest' = backtest_strategy(df)
    /\ pc' = "backtested"
    /\ UNCHANGED <<input, df, rate_periods, metrics, fed_period_metrics, current_review>>

\* run_backtest, "Calculate metrics": without metrics the run returns
\* (None, None); an exception of the call ends the run
CalculateMetrics ==
    /\ pc = "backtested"
    /\ LET r == calculate_performance_metrics(df_backtest)
       IN  IF r.out = "metrics"
           THEN metrics' = r.metrics /\ pc' = "measured"
           ELSE IF r.out = "None"
           THEN metrics' = None /\ pc' = "returned None"
           ELSE metrics' = metrics /\ pc' = "raised"
    /\ UNCHANGED <<input, df, rate_periods, df_backtest, fed_period_metrics, current_review>>

\* run_backtest, "Calculate performance by Fed rate periods"
CalculateByFedPeriods ==
    /\ pc = "measured"
    /\ fed_period_metrics' = calculate_performance_by_fed_periods(df_backtest)
    /\ metrics' = ("fed_rate_periods" :> fed_period_metrics') @@ metrics
    /\ pc' = "segmented"
    /\ UNCHANGED <<input, df, rate_periods, df_backtest, current_review>>

\* run_backtest, "Generate current strategy review"
GenerateReview ==
    /\ pc = "segmented"
    /\ current_review' = generate_current_strategy_review(df_backtest)
    /\ pc' = "reviewed"
    /\ UNCHANGED <<input, df, rate_periods, df_backtest, metrics, fed_period_metrics>>

Next ==
    \/ IdentifyRateChanges
    \/ BacktestStrategy
    \/ CalculateMetrics
    \/ CalculateByFedPeriods
    \/ GenerateReview

Spec == Init /\ [][Next]_vars

\* the runs on the tables without a policy-rate column
InitMarket == IsMarketInput(input) /\ Loaded

SpecMarket == InitMarket /\ [][Next]_vars


(***************************************************************************)
(* Properties of backtest_strategy.                                        *)
(***************************************************************************)
Backtested == pc = "backtested"
BT(name) == Col(df_backtest, name)
Rows == 1..df_backtest.n

LOW == "Low Spread (Buy)"
MODLOW == "Moderate-Low Spread"
MODHIGH == "Moderate-High Spread"
HIGH == "High Spread (Caution)"
VERYHIGH == "Very High Spread (Reduce Exposure)"
UNKNOWN == "Unknown"

ThresholdsMissing(t) ==
    \/ IsNA(BT("Spread_P25")[t]) \/ IsNA(BT("Spread_P50")[t])
    \/ IsNA(BT("Spread_P75")[t]) \/ IsNA(BT("Spread_P90")[t])

ThresholdsDefined(t) ==
    /\ ~IsNA(BT("Spread_P25")[t]) /\ ~IsNA(BT("Spread_P50")[t])
    /\ ~IsNA(BT("Spread_P75")[t]) /\ ~IsNA(BT("Spread_P90")[t])

\* the band of the spread x (times QScale) among thresholds a <= b <= c <= d
Band(x, a, b, c, d) ==
    CASE x <= a -> LOW
      [] a < x /\ x <= b -> MODLOW
      [] b < x /\ x <= c -> MODHIGH
      [] c < x /\ x <= d -> HIGH
      [] x > d -> VERYHIGH

BandCount(x, a, b, c, d) ==
    Cardinality({k \in 1..5 :
        \/ k = 1 /\ x <= a
        \/ k = 2 /\ a < x /\ x <= b
        \/ k = 3 /\ b < x /\ x <= c
        \/ k = 4 /\ c < x /\ x <= d
        \/ k = 5 /\ x > d})

\* C1: the regime of a month is Unknown exactly when its spread or one of
\* its thresholds is missing; otherwise exactly one of the five bands
\* (upper bounds inclusive) contains the spread and the regime is that band.
C1_RegimeBands ==
    Backtested =>
        \A t \in Rows :
            LET sp == BT("HY_IG_Spread")[t]
                missing == IsNA(sp) \/ ThresholdsMissing(t)
            IN  /\ (BT("Regime")[t] = UNKNOWN) <=> missing
                /\ ~missing =>
                     LET x == QScale * Val(sp)
                         a == Val(BT("Spread_P25")[t])
                         b == Val(BT("Spread_P50")[t])
                         c == Val(BT("Spread_P75")[t])
                         d == Val(BT("Spread_P90")[t])
                     IN  /\ BandCount(x, a, b, c, d) = 1
                         /\ BT("Regime")[t] = Band(x, a, b, c, d)

\* a table with a spread on the inclusive upper bound of a band above the
\* lowest one, and with both kinds of Unknown month
C1_Witness ==
    /\ Backtested
    /\ \E t \in Rows : /\ BT("Regime")[t] = MODLOW
                       /\ QScale * Val(BT("HY_IG_Spread")[t]) = Val(BT("Spread_P50")[t])
                       /\ Val(BT("Spread_P25")[t]) < Val(BT("Spread_P50")[t])
    /\ \E t \in Rows : /\ BT("Regime")[t] = UNKNOWN
                       /\ IsNA(BT("HY_IG_Spread")[t])
                       /\ ThresholdsDefined(t)
    /\ \E t \in Rows : /\ BT("Regime")[t] = UNKNOWN
                       /\ ~IsNA(BT("HY_IG_Spread")[t])

\* C2: the position size is never missing and is the table value of the
\* month's regime, hence between 0 and 1 (here in hundredths).
C2_ExposureTable ==
    Backtested =>
        \A t \in Rows :
            LET r == BT("Regime")[t]
                p == BT("Position_Size")[t]
            IN  /\ p \in 0..100
                /\ r = LOW => p = 100
                /\ r = MODLOW => p = 75
                /\ r = MODHIGH => p = 50
                /\ r = HIGH => p = 25
                /\ r = VERYHIGH => p = 10
                /\ r = UNKNOWN => p = 50
                /\ r \in {LOW, MODLOW, MODHIGH, HIGH, VERYHIGH, UNKNOWN}

C2_Witness ==
    /\ Backtested
    /\ {100, 75, 50, 10} \subseteq {BT("Position_Size")[t] : t \in Rows}
    /\ \E t \in Rows : BT("Regime")[t] = UNKNOWN

\* C3: the strategy return is position size times benchmark return, and 0
\* where the benchmark return is missing.
C3_StrategyReturn ==
    Backtested =>
        \A t \in Rows :
            LET r == BT("SPY_Returns")[t]
            IN  /\ ~IsNA(r) => BT("Strategy_Return")[t] = BT("Position_Size")[t] * Val(r)
                /\ IsNA(r) => BT("Strategy_Return")[t] = 0

C3_Witness ==
    /\ Backtested
    /\ \E t \in Rows : IsNA(BT("SPY_Returns")[t])
    /\ \E t \in Rows : ~IsNA(BT("SPY_Returns")[t]) /\ BT("Position_Size")[t] = 10
                       /\ BT("Strategy_Return")[t] = -100
    /\ \E t \in Rows : ~IsNA(BT("SPY_Returns")[t]) /\ BT("Position_Size")[t] = 100
                       /\ BT("Strategy_Return")[t] = 500


\* C4: the strategy equity curve is the cumulative product of
\* 1 + Strategy_Return/100 from a base of 1; on Scenario B the strategy
\* returns are 5, -1, 5, 5, the final growth is 1.05 * 0.99 * 1.05 * 1.05 and
\* the largest strategy drawdown is -1%.
Growth(r) == CumDen + r

C4_EquityCurve ==
    Backtested =>
        /\ \A t \in Rows :
              LET c == BT("Strategy_Cumulative")[t]
                  prev == IF t = 1 THEN One ELSE Val(BT("Strategy_Cumulative")[t - 1])
              IN  /\ ~IsNA(c)
                  /\ Val(c) = NumMulFrac(prev, Growth(BT("Strategy_Return")[t]))
        /\ input = ScenarioB =>
              LET t0 == MinPeriods
                  dd == BT("Strategy_Drawdown")
              IN  /\ [i \in 0..3 |-> BT("Position_Size")[t0 + i]] =
                         (0 :> 100) @@ (1 :> 10) @@ (2 :> 100) @@ (3 :> 100)
                  /\ [i \in 0..3 |-> BT("Strategy_Return")[t0 + i]] =
                         (0 :> 500) @@ (1 :> -100) @@ (2 :> 500) @@ (3 :> 500)
                  /\ Val(BT("Strategy_Cumulative")[t0]) = [sg |-> 1, mag |-> <<500, 1>>, sc |-> 1]
                  /\ Val(BT("Strategy_Cumulative")[t0 + 3]) =
                         [sg |-> 1, mag |-> <<4875, 1460, 1>>, sc |-> 2]
                  /\ Val(dd[t0 + 1]).num = NumNeg(Val(dd[t0 + 1]).den)
                  /\ \A t \in Rows \ {t0 + 1} : Val(dd[t]).num = Zero

C4_Witness ==
    /\ Backtested
    /\ input = ScenarioB
    /\ Val(BT("Strategy_Cumulative")[df_backtest.n]) = [sg |-> 1, mag |-> <<4875, 1460, 1>>, sc |-> 2]

\* C5: every drawdown of the benchmark and of the strategy is at most 0,
\* and is 0 where the equity curve reaches a new running maximum, whatever
\* the returns.  A missing drawdown is not counted against the claim.
NewMaximum(cum, t) ==
    /\ ~IsNA(cum[t])
    /\ \A i \in 1..(t - 1) : ~IsNA(cum[i]) => NumCmp(Val(cum[t]), Val(cum[i])) >= 0

DrawdownOk(cum, dd, t) ==
    /\ ~IsNA(dd[t]) => FracSign(Val(dd[t])) <= 0
    /\ NewMaximum(cum, t) => (~IsNA(dd[t]) /\ FracSign(Val(dd[t])) = 0)

C5_DrawdownNonPositive ==
    Backtested =>
        \A t \in Rows :
            /\ DrawdownOk(BT("SPY_Cumulative"), BT("SPY_Drawdown"), t)
            /\ DrawdownOk(BT("Strategy_Cumulative"), BT("Strategy_Drawdown"), t)


\* C6: wherever the thresholds are defined, P25 <= P50 <= P75 <= P90.
C6_ThresholdsOrdered ==
    Backtested =>
        \A t \in Rows :
            ThresholdsDefined(t) =>
                /\ Val(BT("Spread_P25")[t]) <= Val(BT("Spread_P50")[t])
                /\ Val(BT("Spread_P50")[t]) <= Val(BT("Spread_P75")[t])
                /\ Val(BT("Spread_P75")[t]) <= Val(BT("Spread_P90")[t])

\* thresholds that differ, one of them interpolated between two spreads
C6_Witness ==
    /\ Backtested
    /\ \E t \in Rows :
          /\ ThresholdsDefined(t)
          /\ Val(BT("Spread_P25")[t]) < Val(BT("Spread_P50")[t])
          /\ Val(BT("Spread_P75")[t]) < Val(BT("Spread_P90")[t])
          /\ Val(BT("Spread_P90")[t]) % QScale # 0

\* C7: the thresholds of month t are missing exactly when fewer than 12
\* spreads are present among the last 60 months ending at t; the first 11
\* months of every table have no thresholds, regime Unknown and size 0.50.
PresentInTrailing(t) ==
    Cardinality({i \in 1..df_backtest.n :
                    /\ i <= t
                    /\ i > t - 60
                    /\ ~IsNA(BT("HY_IG_Spread")[i])})

C7_MinimumWindow ==
    Backtested =>
        \A t \in Rows :
            /\ ThresholdsMissing(t) <=> PresentInTrailing(t) < 12
            /\ ThresholdsMissing(t) <=> ~ThresholdsDefined(t)
            /\ t <= 11 => /\ ThresholdsMissing(t)
                          /\ BT("Regime")[t] = UNKNOWN
                          /\ BT("Position_Size")[t] = 50

\* a month with no thresholds although 12 spreads were present earlier: they
\* have left the window
C7_Witness ==
    /\ Backtested
    /\ \E t \in Rows :
          /\ ThresholdsMissing(t)
          /\ Cardinality({i \in 1..t : ~IsNA(BT("HY_IG_Spread")[i])}) >= 12
          /\ \E u \in 1..(t - 1) : ThresholdsDefined(u)


\* C8: no look-ahead.  Two tables that agree on the months t-59..t have the
\* same thresholds, regime and position size at t, and two tables that agree
\* on the months up to t have the same strategy return, cumulative growth
\* and drawdown at t.  The table is compared with the tables that differ
\* from it in every month outside t-59..t, and in every month after t, for
\* the last MaxLook + 1 months t.
MaxLook == 2

FlipSpread(c) == IF IsNA(c) THEN Some(MaxSpread) ELSE None
FlipReturn(c) == IF IsNA(c) THEN Some(100) ELSE None

\* the table t with the spread and the return of every month outside keep
\* replaced by a different cell
Altered(t, keep) ==
    SetCol(SetCol(t, "HY_IG_Spread",
                  [i \in 1..t.n |-> IF i \in keep THEN Col(t, "HY_IG_Spread")[i]
                                    ELSE FlipSpread(Col(t, "HY_IG_Spread")[i])]),
           "SPY_Returns",
           [i \in 1..t.n |-> IF i \in keep THEN Col(t, "SPY_Returns")[i]
                             ELSE FlipReturn(Col(t, "SPY_Returns")[i])])

Probes == {t \in Rows : t >= df_backtest.n - MaxLook}

SameAt(a, b, t, names) == \A c \in names : Col(a, c)[t] = Col(b, c)[t]

C8_NoLookAhead ==
    Backtested =>
        \A t \in Probes :
            LET upto == IF t = df.n THEN df_backtest
                        ELSE backtest_strategy(Altered(df, 1..t))
                near == IF t <= 60 THEN upto
                        ELSE backtest_strategy(Altered(df, (t - 59)..t))
            IN  /\ SameAt(near, df_backtest, t,
                          {"Spread_P25", "Spread_P50", "Spread_P75", "Spread_P90",
                           "Regime", "Position_Size"})
                /\ SameAt(upto, df_backtest, t,
                          {"Strategy_Return", "SPY_Cumulative", "Strategy_Cumulative",
                           "SPY_Drawdown", "Strategy_Drawdown"})

\* a probed month with later months and with months before its window
C8_Witness ==
    /\ Backtested
    /\ \E t \in Probes : t < df_backtest.n /\ t > 60 /\ ThresholdsDefined(t)

(***************************************************************************)
(* Properties of identify_fed_rate_changes.                                *)
(***************************************************************************)
Identified == pc \in {"identified", "backtested"} /\ HasCol(df, "Fed_Rate_Change_Type")
Types == Col(df, "Fed_Rate_Change_Type")

\* the decimal rate of month t (in hundredths) after the forward fill
Decimal(t) == Val(Col(df, "FEDFUNDS")[t])[1]

DecimalType(t) ==
    IF t = 1 \/ IsNA(Col(df, "FEDFUNDS")[t]) \/ IsNA(Col(df, "FEDFUNDS")[t - 1]) THEN "none"
    ELSE IF Decimal(t) - Decimal(t - 1) > 5 THEN "increase"
    ELSE IF Decimal(t) - Decimal(t - 1) < -5 THEN "decrease"
    ELSE "none"


\* C9: a month is an increase iff its rate exceeds the previous month's by
\* more than 0.05, a decrease iff it is lower by more than 0.05, otherwise
\* none; a difference of exactly 0.05 is none, and so is the first month.
\* The rates 2.0, 2.10, 2.10, 1.95, 2.00 give none, increase, none,
\* decrease, none.
C9_RateClassification ==
    Identified =>
        /\ \A t \in 1..df.n : Types[t] = DecimalType(t)
        /\ input.cols["FEDFUNDS"] = ScenarioC =>
              Types = <<"none", "increase", "none", "decrease", "none">>

\* C10: rate_periods holds exactly one record per maximal run of months with
\* the same classification other than none, in time order, with the run's
\* classification and the timestamp of the run's first month.
RunStarts == {t \in 1..df.n : Types[t] # "none" /\ (t = 1 \/ Types[t - 1] # Types[t])}

C10_OnePeriodPerRun ==
    Identified =>
        /\ Len(rate_periods) = Cardinality(RunStarts)
        /\ \A k \in 1..Len(rate_periods) :
              /\ rate_periods[k].start \in RunStarts
              /\ rate_periods[k].type = Types[rate_periods[k].start]
              /\ k > 1 => rate_periods[k - 1].start < rate_periods[k].start

\* a run of two months merged into one period, followed at once by a run of
\* the opposite type
C10_Witness ==
    /\ Identified
    /\ Len(rate_periods) >= 2
    /\ \E t \in 2..(df.n - 1) :
          /\ Types[t] # "none" /\ Types[t - 1] = Types[t]
          /\ Types[t + 1] \notin {"none", Types[t]}

\* C11: every rate period has an end; it is the first month after the
\* period's start whose change type differs from the period's type (a
\* 'none' month or a month of the opposite type), or the last month of the
\* table when no later month differs.
LaterDifferent(p) == {t \in (p.start + 1)..df.n : Types[t] # p.type}

C11_PeriodEnds ==
    Identified =>
        \A k \in 1..Len(rate_periods) :
            LET p == rate_periods[k]
            IN  /\ ~IsNA(p.end)
                /\ Val(p.end) = IF LaterDifferent(p) = {} THEN df.n
                                ELSE CHOOSE t \in LaterDifferent(p) :
                                         \A u \in LaterDifferent(p) : t <= u

\* a period ended by a month of the opposite type, one ended by a 'none'
\* month, and one still open at the end of the table
C11_Witness ==
    /\ Identified
    /\ \E a, b, c \in 1..Len(rate_periods) :
          /\ LaterDifferent(rate_periods[a]) # {}
          /\ Types[Val(rate_periods[a].end)] \notin {"none", rate_periods[a].type}
          /\ LaterDifferent(rate_periods[b]) # {}
          /\ Types[Val(rate_periods[b].end)] = "none"
          /\ LaterDifferent(rate_periods[c]) = {}
          /\ rate_periods[c].end = Some(df.n)

\* C12: when the policy-rate column is present but entirely missing, the
\* rate-change step yields the pair (table, periods) with no period and
\* every month classified 'none', and the run goes on past that step.
AllMissingRates == HasCol(input, "FEDFUNDS") /\ AllNA(Col(input, "FEDFUNDS"))

C12_AllMissingRates ==
    (AllMissingRates /\ pc # "loaded") =>
        /\ identify_fed_rate_changes(input).pair
        /\ pc # "raised"
        /\ rate_periods = <<>>
        /\ HasCol(df, "Fed_Rate_Change_Type")
        /\ \A t \in 1..df.n : Col(df, "Fed_Rate_Change_Type")[t] = "none"

(***************************************************************************)
(* Properties of the metrics.                                              *)
(***************************************************************************)
Measured == pc \in {"measured", "segmented", "reviewed"}
Segmented == pc = "segmented"
\* the metrics step has been taken, whatever its outcome
AfterMetrics == df_backtest # EmptyTable /\ pc # "backtested"

ValidRows(t) == Where([i \in 1..t.n |-> ~IsNA(Col(t, "SPY_Returns")[i])])

AllZero(side) == \A f \in DOMAIN side : side[f] = FZero

\* C13: on a subset without any row of valid returns both calculators
\* return a metrics object whose fields are all zero, for the strategy and
\* for the benchmark; neither raises or returns no result.
C13_EmptySubset ==
    /\ Backtested =>
          LET r == calculate_period_metrics(Take(df_backtest, <<>>))
          IN  r.n_months = 0 /\ AllZero(r.strategy) /\ AllZero(r.spy)
    /\ (AfterMetrics /\ ValidRows(df_backtest) = <<>>) =>
          /\ Measured
          /\ AllZero([f \in DOMAIN metrics.strategy \ {"n_months"} |-> metrics.strategy[f]])
          /\ AllZero([f \in DOMAIN metrics.spy \ {"n_months"} |-> metrics.spy[f]])
          /\ metrics.strategy.n_months = 0
          /\ metrics.spy.n_months = 0

\* two floats have the same value; two powers of different bases count as
\* agreeing when their exponents differ too (their values are not compared)
Agree(a, b) ==
    IF a.k # b.k THEN FALSE
    ELSE IF a.k = "frac" THEN FracCmp(a, b) = 0
    ELSE IF a.k = "pow" THEN FracCmp(a.base, b.base) # 0 \/ a.exp = b.exp
    ELSE a = b

\* C14: the segment path applied to the whole backtest output gives the
\* same n_months, total_return, annualized_return, max_drawdown and
\* win_rate as the no-segmentation path, for the strategy and the benchmark.
C14_SegmentConsistency ==
    Measured =>
        LET seg == calculate_period_metrics(df_backtest)
        IN  \A side \in {"strategy", "spy"} :
                /\ seg.n_months = metrics[side].n_months
                /\ \A f \in {"total_return", "annualized_return", "max_drawdown", "win_rate"} :
                       Agree(seg[side][f], metrics[side][f])

\* C15: when the valid rows span no time (a single valid row) the
\* annualized return of both calculators is 0 and neither raises.
C15_ZeroDuration ==
    (AfterMetrics /\ Len(ValidRows(df_backtest)) = 1) =>
        /\ Measured
        /\ metrics.strategy.annualized_return = FZero
        /\ metrics.spy.annualized_return = FZero
        /\ LET seg == calculate_period_metrics(Take(df_backtest, ValidRows(df_backtest)))
           IN  /\ seg.strategy.annualized_return = FZero
               /\ seg.spy.annualized_return = FZero

Defined(x) == x.k \notin {"nan", "inf"}

\* the returns of one side on the rows of valid returns
SideReturns(side) ==
    LET rows == ValidRows(df_backtest)
    IN  [k \in 1..Len(rows) |->
            IF side = "spy" THEN Val(BT("SPY_Returns")[rows[k]])
            ELSE BT("Strategy_Return")[rows[k]]]

\* C16: the Sharpe ratio is 0 whenever the volatility is 0 or undefined
\* (fewer than two observations), the Sortino ratio is 0 whenever no return
\* is negative, and no ratio is undefined or missing because of an
\* exception, for the strategy and the benchmark, overall and per segment.
C16_RatioDefaults ==
    (AfterMetrics /\ ValidRows(df_backtest) # <<>>) =>
        /\ Measured
        /\ \A side \in {"strategy", "spy"} :
              LET m == metrics[side]
                  sample == SideReturns(side)
              IN  /\ Std(sample) \in {FZero, NaN} => m.sharpe_ratio = FZero
                  /\ (\A i \in 1..Len(sample) : sample[i] >= 0) => m.sortino_ratio = FZero
                  /\ Defined(m.sharpe_ratio)
                  /\ Defined(m.sortino_ratio)
        /\ Segmented =>
              \A key \in DOMAIN fed_period_metrics : \A side \in {"strategy", "spy"} :
                  LET m == fed_period_metrics[key][side]
                  IN  /\ ~Positive(m.volatility) => m.sharpe_ratio = FZero
                      /\ Defined(m.sharpe_ratio)

\* the rows of the segment key, as a set
SegmentSet(key) ==
    LET rows == SegmentRows(df_backtest)[key]
    IN  {rows[k] : k \in 1..Len(rows)}

\* the backtest of the input with the months outside the segment changed
OutsideChanged(key) == backtest_strategy(Altered(df, SegmentSet(key)))

SameReturns(a, b, rows) ==
    \A t \in rows : /\ Col(a, "Strategy_Return")[t] = Col(b, "Strategy_Return")[t]
                    /\ Col(a, "SPY_Returns")[t] = Col(b, "SPY_Returns")[t]

\* C17: the total return reported for a segment is a function of the
\* returns of the segment's own rows: a backtest that differs only outside
\* the segment, with the same returns on the segment's rows, gives the same
\* segment total return for the strategy and for the benchmark.
C17_SegmentOwnBase ==
    Segmented =>
        \A key \in DOMAIN fed_period_metrics :
            LET other == OutsideChanged(key)
                there == calculate_period_metrics(Take(other, SegmentRows(df_backtest)[key]))
            IN  SameReturns(df_backtest, other, SegmentSet(key)) =>
                    /\ there.strategy.total_return = fed_period_metrics[key].strategy.total_return
                    /\ there.spy.total_return = fed_period_metrics[key].spy.total_return

\* a segment that starts after the first month and skips a month, with a
\* return outside it, whose own total return is not zero
C17_Witness ==
    /\ Segmented
    /\ \E key \in DOMAIN fed_period_metrics :
          /\ \E a, b, c \in Rows : /\ a < b /\ b < c
                                   /\ a \notin SegmentSet(key)
                                   /\ b \in SegmentSet(key)
                                   /\ c \notin SegmentSet(key)
                                   /\ \E d \in SegmentSet(key) : d > c
                                   /\ ~IsNA(BT("SPY_Returns")[a])
                                   /\ ~IsNA(BT("SPY_Returns")[c])
          /\ SameReturns(df_backtest, OutsideChanged(key), SegmentSet(key))
          /\ fed_period_metrics[key].strategy.total_return.k = "frac"
          /\ fed_period_metrics[key].strategy.total_return.num.sg # 0
          /\ fed_period_metrics[key].spy.total_return.k = "frac"
          /\ fed_period_metrics[key].spy.total_return.num.sg # 0

\* the minimum of the drawdown series of the equity curve recomputed from
\* the factors of a sample alone: cumulative growth against its own running
\* maximum
OwnMaxDrawdown(factors) ==
    LET cum == CumProd([i \in 1..Len(factors) |-> Some(factors[i])])
        peak == CumMax(cum)
    IN  MinDrawdown([i \in 1..Len(factors) |-> Drawdown(cum[i], peak[i])])

\* C18: the max_drawdown reported for a segment is the minimum of the
\* segment's own drawdown series, measured against the running maximum
\* within the segment and not against peaks outside it.
C18_SegmentDrawdown ==
    Segmented =>
        \A key \in DOMAIN fed_period_metrics :
            LET seg == Take(df_backtest, SegmentRows(df_backtest)[key])
            IN  /\ Agree(fed_period_metrics[key].strategy.max_drawdown,
                         OwnMaxDrawdown(StrategyFactors(Col(seg, "Strategy_Return"))))
                /\ Agree(fed_period_metrics[key].spy.max_drawdown,
                         OwnMaxDrawdown(SpyFactors(DropNA(Col(seg, "SPY_Returns")))))

PerformanceMetricsFields ==
    {"total_return", "annualized_return", "volatility", "sharpe_ratio",
     "sortino_ratio", "max_drawdown", "win_rate", "n_months"}

\* C19: every per-segment entry holds the full field set for the strategy
\* and for the benchmark, and an outperformance object.
C19_SegmentFields ==
    Segmented =>
        \A key \in DOMAIN fed_period_metrics :
            LET e == fed_period_metrics[key]
            IN  /\ {"strategy", "spy", "outperformance"} \subseteq DOMAIN e
                /\ PerformanceMetricsFields \subseteq DOMAIN e.strategy
                /\ PerformanceMetricsFields \subseteq DOMAIN e.spy

\* the timestamps are not strictly ascending: unsorted or repeated
InvalidIndex(t) == \E i \in 1..t.n : \E j \in 1..t.n : i < j /\ t.index[i] >= t.index[j]

\* C20: on an input whose timestamps are unsorted or repeated the run
\* computes nothing: no thresholds, regimes or metrics are produced.
C20_InvalidInputRejected ==
    InvalidIndex(input) => (df_backtest = EmptyTable /\ metrics = None)

(***************************************************************************)
(* Properties of the whole run.                                            *)
(***************************************************************************)
\* the rate-change step has run on its normal path
RatesIdentified == pc # "loaded" /\ HasCol(df, "Fed_Rate_Diff")

\* C21: a missing cell of an input column stays missing: the spread and the
\* benchmark return of the backtest output are missing where the input's
\* are, the benchmark curve and drawdown are missing there and the strategy
\* return is 0; a month whose policy rate is missing in the input has a
\* missing policy rate after the rate-change step and is in neither
\* rate-level bucket.
C21_MissingPropagates ==
    /\ df_backtest # EmptyTable =>
          \A t \in Rows :
              /\ IsNA(Col(input, "HY_IG_Spread")[t]) => IsNA(BT("HY_IG_Spread")[t])
              /\ IsNA(Col(input, "SPY_Returns")[t]) =>
                    /\ IsNA(BT("SPY_Returns")[t])
                    /\ IsNA(BT("SPY_Cumulative")[t])
                    /\ IsNA(BT("SPY_Drawdown")[t])
                    /\ BT("Strategy_Return")[t] = 0
    /\ RatesIdentified =>
          \A t \in 1..df.n :
              IsNA(Col(input, "FEDFUNDS")[t]) =>
                  /\ IsNA(Col(df, "FEDFUNDS")[t])
                  /\ df_backtest # EmptyTable =>
                        /\ ~RateGe(BT("FEDFUNDS")[t])
                        /\ ~RateLt(BT("FEDFUNDS")[t])

\* C22: the rate-change step and the backtest leave the table they are
\* given as it was, on every path (policy-rate column absent, entirely
\* missing, or present), and a second call on the same table returns what
\* the first returned.
C22_CoreIsPure ==
    pc # "loaded" =>
        LET first == identify_fed_rate_changes(input)
            second == identify_fed_rate_changes(first.caller)
        IN  /\ first.caller = input
            /\ second.df = first.df /\ second.rate_periods = first.rate_periods
            /\ (pc = "raised" /\ df_backtest = EmptyTable) => df = input
            /\ df_backtest # EmptyTable => backtest_strategy(df) = df_backtest

\* a table whose spread is present and the same in every month
ConstantSpread ==
    /\ df_backtest.n > 0
    /\ \A t \in Rows : ~IsNA(BT("HY_IG_Spread")[t])
                       /\ BT("HY_IG_Spread")[t] = BT("HY_IG_Spread")[1]

\* C23: on a constant spread series every month from the twelfth on has
\* its thresholds defined, all equal to the spread, and is Low Spread with
\* position size 1.00; the months before have no thresholds and are Unknown.
C23_ConstantSpread ==
    (Backtested /\ ConstantSpread) =>
        \A t \in Rows :
            IF t >= MinPeriods
            THEN /\ ThresholdsDefined(t)
                 /\ \A name \in {"Spread_P25", "Spread_P50", "Spread_P75", "Spread_P90"} :
                       BT(name)[t] = Scaled(BT("HY_IG_Spread")[t])
                 /\ BT("Regime")[t] = LOW
                 /\ BT("Position_Size")[t] = 100
            ELSE /\ ThresholdsMissing(t)
                 /\ BT("Regime")[t] = UNKNOWN

\* Scenario A: seventy months of one spread, so that the window slides
C23_Witness ==
    /\ Backtested
    /\ ConstantSpread
    /\ df_backtest.n = 70
    /\ BT("Regime")[70] = LOW

\* the set of the entries of a sequence of row positions
RowSet(rows) == {rows[k] : k \in 1..Len(rows)}

SameThresholds(s, t) ==
    \A name \in {"Spread_P25", "Spread_P50", "Spread_P75", "Spread_P90"} :
        BT(name)[s] = BT(name)[t]

\* the position size that the thresholds of month t give to a spread x
SizeAt(t, x) ==
    MapPosition(SelectRegime(Some(x), BT("Spread_P25")[t], BT("Spread_P50")[t],
                             BT("Spread_P75")[t], BT("Spread_P90")[t]))

\* C25: of two months with the same defined thresholds the one with the
\* higher spread never has the larger position size; more generally, under
\* the thresholds of any month the position size does not increase with
\* the spread.
C25_InverseSizing ==
    Backtested =>
        /\ \A s \in Rows : \A t \in Rows :
              (/\ ThresholdsDefined(s) /\ SameThresholds(s, t)
               /\ ~IsNA(BT("HY_IG_Spread")[s]) /\ ~IsNA(BT("HY_IG_Spread")[t])
               /\ Val(BT("HY_IG_Spread")[s]) < Val(BT("HY_IG_Spread")[t]))
              => BT("Position_Size")[s] >= BT("Position_Size")[t]
        /\ \A t \in Rows : ThresholdsDefined(t) =>
              \A x \in SpreadValues : \A y \in SpreadValues :
                  x < y => SizeAt(t, x) >= SizeAt(t, y)

\* two months with the same thresholds, a higher spread and a smaller size,
\* and a month whose thresholds separate three sizes
C25_Witness ==
    /\ Backtested
    /\ \E s \in Rows : \E t \in Rows :
          /\ ThresholdsDefined(s) /\ SameThresholds(s, t)
          /\ ~IsNA(BT("HY_IG_Spread")[s]) /\ ~IsNA(BT("HY_IG_Spread")[t])
          /\ Val(BT("HY_IG_Spread")[s]) < Val(BT("HY_IG_Spread")[t])
          /\ BT("Position_Size")[s] > BT("Position_Size")[t]
    /\ \E t \in Rows : ThresholdsDefined(t)
                       /\ Cardinality({SizeAt(t, x) : x \in SpreadValues}) = 3

\* C26: every position size lies between 0.10 and 1.00, so the strategy
\* return of a month has the sign of the benchmark return, is zero exactly
\* when the benchmark return is zero or missing, and is not larger in
\* absolute value than the benchmark return.
C26_NeverLevered ==
    Backtested =>
        \A t \in Rows :
            LET r == BT("SPY_Returns")[t]
                sr == BT("Strategy_Return")[t]
            IN  /\ BT("Position_Size")[t] >= 10 /\ BT("Position_Size")[t] <= 100
                /\ sr = 0 <=> (IsNA(r) \/ Val(r) = 0)
                /\ ~IsNA(r) => /\ Sign(sr) = Sign(Val(r))
                               /\ Abs(sr) <= 100 * Abs(Val(r))

\* a loss taken at the smallest size, a gain taken at full size and a
\* month of zero return
C26_Witness ==
    /\ Backtested
    /\ \E t \in Rows : ~IsNA(BT("SPY_Returns")[t]) /\ Val(BT("SPY_Returns")[t]) < 0
                       /\ BT("Position_Size")[t] = 10
                       /\ BT("Strategy_Return")[t] = 10 * Val(BT("SPY_Returns")[t])
    /\ \E t \in Rows : ~IsNA(BT("SPY_Returns")[t]) /\ Val(BT("SPY_Returns")[t]) > 0
                       /\ BT("Position_Size")[t] = 100
                       /\ BT("Strategy_Return")[t] = 100 * Val(BT("SPY_Returns")[t])
    /\ \E t \in Rows : BT("SPY_Returns")[t] = Some(0)

\* C27: in the metrics of a backtest output the win rate of the strategy
\* equals the win rate of the benchmark.
C27_EqualWinRates ==
    Measured => metrics.strategy.win_rate = metrics.spy.win_rate

\* winning and losing months in unequal numbers, one of them held at less
\* than full size
C27_Witness ==
    /\ Measured
    /\ metrics.spy.win_rate \notin {FZero, FInt(100), FInt(50)}
    /\ \E t \in Rows : ~IsNA(BT("SPY_Returns")[t]) /\ Val(BT("SPY_Returns")[t]) # 0
                       /\ BT("Position_Size")[t] < 100

\* subsets of the rows of the backtest output: the first row and each of
\* the last two alone, the last three rows, and the last row with the last
\* but two
PeriodSubsets ==
    {<<t>> : t \in {u \in Rows : u = 1 \/ u >= df_backtest.n - 1}}
    \cup {<<df_backtest.n - 2, df_backtest.n - 1, df_backtest.n>> : x \in {y \in Rows : y >= 3}}
    \cup {<<df_backtest.n - 2, df_backtest.n>> : x \in {y \in Rows : y >= 3}}

\* the growth factors of one side on the rows of a subset
SideFactors(period_data, side) ==
    IF side = "spy" THEN SpyFactors(DropNA(Col(period_data, "SPY_Returns")))
    ELSE StrategyFactors(Col(period_data, "Strategy_Return"))

\* the compounded growth, in percent, of the factors after the first
GrowthAfterFirst(factors) ==
    IF Len(factors) = 1 THEN FZero
    ELSE LET g == CumOf(Tail(factors))
         IN  PercentChange(Quot(g[Len(g)], One))

Reviewed == pc = "reviewed"

\* the rows of the look-back window, ascending: the rows dated within a
\* year of the latest timestamp
LookbackWindow ==
    LET last == CHOOSE d \in {df_backtest.index[i] : i \in Rows} :
                    \A i \in Rows : df_backtest.index[i] <= d
    IN  Where([i \in 1..df_backtest.n |-> df_backtest.index[i] + LookbackDays >= last])

\* the action the statement gives to a row cur that follows a row prev
ActionAfter(prev, cur) ==
    IF BT("Regime")[cur] = BT("Regime")[prev] THEN None
    ELSE IF BT("Position_Size")[cur] > BT("Position_Size")[prev] THEN Some("Increase Position")
    ELSE IF BT("Position_Size")[cur] < BT("Position_Size")[prev] THEN Some("Decrease Position")
    ELSE Some("Regime Change")

ReviewAsStated ==
    LET rows == LookbackWindow
    IN  /\ Len(current_review) = Len(rows)
        /\ \A k \in 1..Len(rows) :
              /\ current_review[k].date = df_backtest.index[rows[k]]
              /\ current_review[k].regime = BT("Regime")[rows[k]]
              /\ current_review[k].position_size = BT("Position_Size")[rows[k]]
              /\ k > 1 => current_review[k - 1].date <= current_review[k].date
        /\ current_review[1].has_action
        /\ current_review[1].action = Some("Regime Change")
        /\ \A k \in 2..Len(rows) :
              /\ current_review[k].has_action <=>
                    BT("Regime")[rows[k]] # BT("Regime")[rows[k - 1]]
              /\ current_review[k].action = ActionAfter(rows[k - 1], rows[k])
              /\ ~current_review[k].has_action => current_review[k].action = None
              /\ current_review[k].action = Some("Regime Change") =>
                    {BT("Regime")[rows[k]], BT("Regime")[rows[k - 1]]} = {UNKNOWN, MODHIGH}

C30_WellFormedPeriods ==
    Identified =>
        \A k \in 1..Len(rate_periods) :
            LET p == rate_periods[k]
            IN  /\ p.type \in {"increase", "decrease"}
                /\ ~IsNA(p.end) /\ p.start <= Val(p.end)
                /\ p.start > 1
                /\ k > 1 =>
                      LET q == rate_periods[k - 1]
                      IN  /\ q.start < p.start
                          /\ Val(q.end) <= p.start
                          /\ Val(q.end) = p.start => q.type # p.type

\* two periods that meet at a timestamp, two with a gap between them, and a
\* period that starts and ends at the last timestamp
C30_Witness ==
    /\ Identified
    /\ \E k \in 2..Len(rate_periods) :
          Val(rate_periods[k - 1].end) = rate_periods[k].start
    /\ \E k \in 2..Len(rate_periods) :
          Val(rate_periods[k - 1].end) < rate_periods[k].start
    /\ \E k \in 1..Len(rate_periods) :
          rate_periods[k].start = df.n /\ rate_periods[k].end = Some(df.n)
====
